---- MODULE Spec2Model ----
(***************************************************************************)
(* bt-service: the process-execution gateway (ProcessRunner), the path     *)
(* helpers it rests on, the HTTP routes that call it, the application      *)
(* startup, the per-environment settings resolver and the Jira client.     *)
(*                                                                         *)
(* Python values are encoded as follows.                                   *)
(*   Optional[T]   <<>> for None, <<v>> for a value v                      *)
(*   Path / str    a record [abs, parts]: whether the path is rooted and   *)
(*                 its components; the empty string is the relative path   *)
(*                 with no components                                      *)
(*   text          a sequence of characters (one-character strings)        *)
(***************************************************************************)
EXTENDS Integers, Sequences, FiniteSets, TLC

VARIABLES
    scenario,        \* which family of inputs the behaviour draws from
    settings,        \* the Settings snapshot (settings.py)
    pc,              \* position of the request being served
    route,           \* who called ProcessRunner.run
    executable,      \* run(executable, ...)
    args,            \* run(..., args, ...)
    timeout_seconds, \* run(..., timeout_seconds, ...)
    working_dir,     \* run(..., working_dir)
    target,          \* local of run: the resolved executable
    timeout,         \* local of run: the effective timeout
    cwd,             \* local of run: the working directory
    command,         \* local of run: the command vector
    spawned,         \* the child processes started by this call, in order
    captured,        \* what the child did: its exit status (None when it
                     \* was killed on timeout) and the bytes read from it
                     \* (None when nothing was kept), <<>> before that
    timedOut,        \* whether subprocess.run raised TimeoutExpired
    exc,             \* the exception that left run, "" when none
    result,          \* the ProcessResult returned by run, <<>> when none
    response,        \* the HTTP response of the route, <<>> when none
    text,            \* sanitizer study: the input text
    passes,          \* sanitizer study: the outputs of successive passes
    jiraSetting,     \* settings study: the property that was read
    jiraValue,       \* settings study: the value the property returned
    defaults,        \* settings study: the operational defaults read, <<>>
                     \* before that
    environ,         \* os.environ of the service process
    started,         \* whether the application startup (lifespan) has run
    jiraPayload,     \* the issue update being handled, <<>> when none is
    configured,      \* what jira_is_configured returned to update_issue
    httpSent,        \* the HTTP requests sent to the issue tracker, in order
    calls,           \* concurrent requests: the state of each call of run
    procs            \* concurrent requests: the operating system's processes

vars == <<scenario, settings, pc, route, executable, args, timeout_seconds,
          working_dir, target, timeout, cwd, command, spawned, captured,
          timedOut, exc, result, response, text, passes, jiraSetting, jiraValue,
          defaults, environ, started, httpSent, calls, procs,
                   jiraPayload, configured>>

-----------------------------------------------------------------------------
(* Bounds of the model.                                                    *)

MaxPathLen == 3
MaxTextLen == 6
MaxCallers == 2          \* the requests served at the same time

-----------------------------------------------------------------------------
(* Optional values and Python truthiness.                                  *)

None == <<>>

Some(v) == <<v>>

\* bool(x) for x: int | None
TruthyInt(o) == o # None /\ o[1] # 0

\* bool(x) for x: str | None, str being a plain string
TruthyStr(o) == o # None /\ o[1] # ""

-----------------------------------------------------------------------------
(* The file system the service runs on: canonical absolute paths (as       *)
(* component sequences) and what lives there.                              *)
(*   /app            the project root                                      *)
(*   /app/bin        the tool bin directory (BT_TOOL_BIN_DIR=bin)          *)
(*   /app/bin/tool   an executable regular file                            *)
(*   /app/bin/sub    a directory, holding a regular file without the       *)
(*                   execute permission                                    *)
(*   /app/bin/out    a symbolic link to /etc                               *)
(*   /etc/tool       an executable regular file outside the bin directory  *)

Names == {"..", "~", "app", "bin", "tool", "sub", "out", "etc"}

Dirs == {<<>>, <<"app">>, <<"app", "bin">>, <<"app", "bin", "sub">>, <<"etc">>}

ExecFiles == {<<"app", "bin", "tool">>, <<"etc", "tool">>}

PlainFiles == {<<"app", "bin", "sub", "tool">>}

Links == {<<"app", "bin", "out">>}

LinkTarget(p) == <<"etc">>

HomeDir == <<"app">>

ProjectRoot == <<"app">>

Exists(p) == p \in Dirs \cup ExecFiles \cup PlainFiles

IsFile(p) == p \in ExecFiles \cup PlainFiles

IsDir(p) == p \in Dirs

-----------------------------------------------------------------------------
(* pathlib                                                                 *)

Rel(parts) == [abs |-> FALSE, parts |-> parts]

Abs(parts) == [abs |-> TRUE, parts |-> parts]

\* Path.expanduser: only a path without a root whose first component is "~"
ExpandUser(p) ==
    IF ~p.abs /\ p.parts # <<>> /\ Head(p.parts) = "~"
    THEN Abs(HomeDir \o Tail(p.parts))
    ELSE p

\* parent / child: an absolute child replaces the parent
Join(parent, child) ==
    IF child.abs THEN child ELSE Abs(parent \o child.parts)

Front(s) == SubSeq(s, 1, Len(s) - 1)

\* os.path.realpath, non strict: components are taken left to right against
\* the path resolved so far; ".." drops its last component (the root is its
\* own parent), a symbolic link is replaced by its target, anything else,
\* existing or not, is appended.
RECURSIVE RealPath(_, _)
RealPath(done, rest) ==
    IF rest = <<>> THEN done
    ELSE LET name == Head(rest)
             next == Append(done, name)
         IN  IF name = ".."
             THEN RealPath(IF done = <<>> THEN <<>> ELSE Front(done), Tail(rest))
             ELSE IF next \in Links
             THEN RealPath(LinkTarget(next), Tail(rest))
             ELSE RealPath(next, Tail(rest))

\* Path.resolve() of an absolute path: the canonical component sequence
Resolve(p) == RealPath(<<>>, p.parts)

\* paths.get_project_root
get_project_root == ProjectRoot

\* paths.resolve_from_root
resolve_from_root(path_value) ==
    LET path == ExpandUser(path_value)
    IN  IF path.abs THEN Resolve(path)
        ELSE Resolve(Join(get_project_root, path))

IsPrefix(s, t) == Len(s) <= Len(t) /\ SubSeq(t, 1, Len(s)) = s

\* paths.is_within: candidate.relative_to(parent) succeeds
is_within(parent, candidate) == IsPrefix(parent, candidate)

-----------------------------------------------------------------------------
(* Text. A character is one of a few representatives of the classes the    *)
(* escape-sequence pattern tells apart:                                    *)
(*   "ESC"   0x1B                                                          *)
(*   "["     0x5B, the CSI introducer, itself in the final-byte range      *)
(*   "0"     a parameter byte    [0-?]                                     *)
(*   " "     an intermediate byte [ -/]                                    *)
(*   "m"     a final byte        [@-~]                                     *)
(*   "LF"    a line feed, in none of the classes                           *)
(*   "FFFD"  U+FFFD, what decoding with errors="replace" leaves            *)
(* and "BAD" is a byte that is not valid UTF-8 (bytes only).               *)

ESC == "ESC"

LF == "LF"

Chars == {ESC, "[", "0", " ", "m", LF}

ParamBytes == {"0"}

IntermediateBytes == {" "}

\* the notice's first letter, "P", is in the final-byte range as well
IsFinalByte(c) == c \in {"[", "m"} \/ (c \notin Chars /\ c \notin {"FFFD", "BAD"})

\* the first index >= i of s whose character is not in class
RECURSIVE SkipWhile(_, _, _)
SkipWhile(s, i, class) ==
    IF i <= Len(s) /\ s[i] \in class THEN SkipWhile(s, i + 1, class) ELSE i

\* _ANSI_ESCAPE_RE.match at index i: the index of the final byte of the
\* match, 0 when there is none. The three classes are disjoint, so the
\* greedy match is the only one.
AnsiMatchEnd(s, i) ==
    IF i + 1 <= Len(s) /\ s[i] = ESC /\ s[i + 1] = "["
    THEN LET k == SkipWhile(s, SkipWhile(s, i + 2, ParamBytes), IntermediateBytes)
         IN  IF k <= Len(s) /\ IsFinalByte(s[k]) THEN k ELSE 0
    ELSE 0

\* _ANSI_ESCAPE_RE.sub("", s) from index i on: one left-to-right pass over
\* the non-overlapping matches
RECURSIVE AnsiSub(_, _)
AnsiSub(s, i) ==
    IF i > Len(s) THEN <<>>
    ELSE LET k == AnsiMatchEnd(s, i)
         IN  IF k > 0 THEN AnsiSub(s, k + 1)
             ELSE <<s[i]>> \o AnsiSub(s, i + 1)

\* ProcessRunner._sanitize_output
SanitizeOutput(value) ==
    IF ~settings.tool_strip_ansi_output THEN value ELSE AnsiSub(value, 1)

\* whether text holds a CSI escape sequence somewhere
HasCsi(s) == \E i \in 1..Len(s) : AnsiMatchEnd(s, i) > 0

\* bytes.decode("utf-8", errors="replace")
DecodeReplace(bytes) ==
    [i \in 1..Len(bytes) |-> IF bytes[i] = "BAD" THEN "FFFD" ELSE bytes[i]]

\* the strict decoding of text=True: defined on valid bytes only
DecodesStrictly(bytes) == \A i \in 1..Len(bytes) : bytes[i] # "BAD"

\* ProcessRunner._to_text: None gives "", bytes are decoded with replacement
ToText(value) == IF value = None THEN <<>> ELSE DecodeReplace(value[1])

Whitespace == {" ", LF}

RECURSIVE LStrip(_)
LStrip(s) ==
    IF s # <<>> /\ Head(s) \in Whitespace THEN LStrip(Tail(s)) ELSE s

RECURSIVE RStrip(_)
RStrip(s) ==
    IF s # <<>> /\ s[Len(s)] \in Whitespace THEN RStrip(Front(s)) ELSE s

\* str.strip
Strip(s) == RStrip(LStrip(s))

\* json.loads accepts, of the texts over these characters, the number 0 only
JsonLoads(content) == content = <<"0">>

\* main._try_parse_json: TRUE when it returns, FALSE when it raises ValueError
TryParseJson(stdout) ==
    LET content == Strip(stdout)
    IN  IF content = <<>> THEN FALSE ELSE JsonLoads(content)

\* the notice run appends to stderr on a timeout
TimeoutNotice(t) == <<LF, "Process timed out after " \o ToString(t) \o " seconds.">>

-----------------------------------------------------------------------------
(* settings.Settings: the derived values.                                  *)

Envs == {"dev", "staging", "prod", "test"}

\* _select_env_value with the staging and prod branches exchanged
SelectEnvValueExchanged(dev, staging, prod) ==
    IF settings.app_env = "dev" THEN dev
    ELSE IF settings.app_env = "staging" THEN prod
    ELSE IF settings.app_env = "prod" THEN staging
    ELSE None

\* Settings._select_env_value
SelectEnvValue(dev, staging, prod) ==
    IF settings.app_env = "dev" THEN dev
    ELSE IF settings.app_env = "staging" THEN staging
    ELSE IF settings.app_env = "prod" THEN prod
    ELSE None

\* value or base
OrElse(value, base) == IF TruthyStr(value) THEN value ELSE base

\* Settings.resolved_jira_base_url
resolved_jira_base_url ==
    OrElse(SelectEnvValue(settings.jira_base_url_dev,
                          settings.jira_base_url_staging,
                          settings.jira_base_url_prod),
           settings.jira_base_url)

\* Settings.resolved_jira_user_email
resolved_jira_user_email ==
    OrElse(SelectEnvValue(settings.jira_user_email_dev,
                          settings.jira_user_email_staging,
                          settings.jira_user_email_prod),
           settings.jira_user_email)

\* Settings.resolved_jira_api_token
resolved_jira_api_token ==
    OrElse(SelectEnvValue(settings.jira_api_token_dev,
                          settings.jira_api_token_staging,
                          settings.jira_api_token_prod),
           settings.jira_api_token)

\* jira_is_configured reading the base URL alone
JiraIsConfiguredUrlOnly == TruthyStr(resolved_jira_base_url)

\* Settings.jira_is_configured
jira_is_configured ==
    /\ TruthyStr(resolved_jira_base_url)
    /\ TruthyStr(resolved_jira_user_email)
    /\ TruthyStr(resolved_jira_api_token)

\* the values validate_log_level lets through
LogLevels == {"AUTO", "DEBUG", "INFO", "WARNING", "ERROR", "CRITICAL"}

\* Settings.resolved_log_level
resolved_log_level ==
    IF settings.log_level # "AUTO" THEN settings.log_level
    ELSE IF settings.app_env = "dev" THEN "DEBUG"
    ELSE IF settings.app_env = "test" THEN "INFO"
    ELSE IF settings.app_env = "staging" THEN "INFO"
    ELSE IF settings.app_env = "prod" THEN "WARNING"
    ELSE "INFO"

\* Settings.resolved_log_json
resolved_log_json ==
    IF settings.log_json # None THEN settings.log_json[1]
    ELSE settings.app_env \in {"staging", "prod"}

\* resolved_api_reload returning the flag in every environment
ResolvedApiReloadUnguarded == settings.api_reload

\* Settings.resolved_api_reload
resolved_api_reload ==
    IF settings.app_env = "prod" THEN FALSE ELSE settings.api_reload

\* an environment (os.environ, or the env given to a child) is a function
\* from these names to an optional value, None for a name that is not set
ProxyNames ==
    {"HTTP_PROXY", "http_proxy", "HTTPS_PROXY", "https_proxy", "NO_PROXY", "no_proxy"}

ColorNames == {"NO_COLOR", "CLICOLOR", "CLICOLOR_FORCE", "TERM"}

EnvNames == ProxyNames \cup ColorNames \cup {"PATH"}

\* the setting of the ProxyPolicy that a proxy variable is written from
ProxySetting(name) ==
    IF name \in {"HTTP_PROXY", "http_proxy"} THEN settings.proxy_http
    ELSE IF name \in {"HTTPS_PROXY", "https_proxy"} THEN settings.proxy_https
    ELSE settings.proxy_no_proxy

\* Settings.proxy_env: a dictionary holding a pair of names for each
\* configured value that is not empty
proxy_env ==
    [name \in ProxyNames |->
        IF TruthyStr(ProxySetting(name)) THEN ProxySetting(name) ELSE None]

\* dict.update, and the assignments os.environ[key] = value
DictUpdate(env, items) ==
    [name \in DOMAIN env |->
        IF name \in DOMAIN items /\ items[name] # None THEN items[name]
        ELSE env[name]]

\* Settings.resolved_tool_bin_dir
resolved_tool_bin_dir == resolve_from_root(settings.tool_bin_dir)

\* Settings.project_root
project_root == get_project_root

\* the Settings object: the fields the model reads. The tool directory, the
\* HCI filter executable and its working directory are configured for the
\* file system above (BT_TOOL_BIN_DIR=bin, BT_TOOL_HCI_FILTER_EXECUTABLE=tool,
\* BT_TOOL_HCI_FILTER_WORKING_DIR=bin).
DefaultTimeoutSeconds == 60

NoJira == [base |-> None, dev |-> None, staging |-> None, prod |-> None]

MakeSettings(env, strip, url, email, token) ==
    [app_env |-> env,
     tool_bin_dir |-> Rel(<<"bin">>),
     tool_default_timeout_seconds |-> DefaultTimeoutSeconds,
     tool_strip_ansi_output |-> strip,
     tool_force_no_color_env |-> TRUE,
     log_level |-> "AUTO",
     log_json |-> None,
     api_reload |-> FALSE,
     proxy_http |-> None,
     proxy_https |-> None,
     proxy_no_proxy |-> None,
     proxy_apply_to_process |-> TRUE,
     tool_hci_filter_executable |-> Rel(<<"tool">>),
     tool_hci_filter_working_dir |-> Rel(<<"bin">>),
     jira_base_url |-> url.base,
     jira_base_url_dev |-> url.dev,
     jira_base_url_staging |-> url.staging,
     jira_base_url_prod |-> url.prod,
     jira_user_email |-> email.base,
     jira_user_email_dev |-> email.dev,
     jira_user_email_staging |-> email.staging,
     jira_user_email_prod |-> email.prod,
     jira_api_token |-> token.base,
     jira_api_token_dev |-> token.dev,
     jira_api_token_staging |-> token.staging,
     jira_api_token_prod |-> token.prod]

-----------------------------------------------------------------------------
(* process_runner.ProcessRunner                                            *)

\* ProcessRunner.__init__: self._bin_dir
bin_dir == resolved_tool_bin_dir

\* the variables _build_env sets when tool_force_no_color_env is on
NoColorEnv ==
    [name \in ColorNames |->
        IF name = "NO_COLOR" THEN Some("1")
        ELSE IF name = "TERM" THEN Some("dumb")
        ELSE Some("0")]

\* ProcessRunner._build_env, over the process environment env
BuildEnv(env) ==
    LET copy == env
        withProxy == IF settings.proxy_apply_to_process
                     THEN DictUpdate(copy, proxy_env) ELSE copy
    IN  IF settings.tool_force_no_color_env
        THEN DictUpdate(withProxy, NoColorEnv) ELSE withProxy

\* resolve_executable with the containment check made on the path as
\* written, before symbolic links and ".." are resolved
ResolveExecutableLexical(exe) ==
    LET candidate == ExpandUser(IF exe.abs THEN exe ELSE Join(bin_dir, exe))
        resolved == Resolve(candidate)
    IN  IF ~is_within(bin_dir, candidate.parts)
        THEN [raises |-> "UnsafeExecutablePathError", path |-> resolved]
        ELSE IF ~Exists(resolved) \/ ~IsFile(resolved)
        THEN [raises |-> "ExecutableNotFoundError", path |-> resolved]
        ELSE [raises |-> "", path |-> resolved]

\* resolve_executable with the existence check made before the containment
\* check
ResolveExecutableExistenceFirst(exe) ==
    LET candidate == IF exe.abs THEN exe ELSE Join(bin_dir, exe)
        resolved == Resolve(ExpandUser(candidate))
    IN  IF ~Exists(resolved) \/ ~IsFile(resolved)
        THEN [raises |-> "ExecutableNotFoundError", path |-> resolved]
        ELSE IF ~is_within(bin_dir, resolved)
        THEN [raises |-> "UnsafeExecutablePathError", path |-> resolved]
        ELSE [raises |-> "", path |-> resolved]

\* ProcessRunner.resolve_executable: the exception it raises ("" when it
\* returns) and the canonical path it computed
ResolveExecutable(exe) ==
    LET raw_target == exe
        candidate == IF raw_target.abs THEN raw_target
                     ELSE Join(bin_dir, raw_target)
        resolved == Resolve(ExpandUser(candidate))
    IN  IF ~is_within(bin_dir, resolved)
        THEN [raises |-> "UnsafeExecutablePathError", path |-> resolved]
        ELSE IF ~Exists(resolved) \/ ~IsFile(resolved)
        THEN [raises |-> "ExecutableNotFoundError", path |-> resolved]
        ELSE [raises |-> "", path |-> resolved]

\* the timeout chosen by "is not None" instead of truthiness
EffectiveTimeoutNotNone(ts) ==
    IF ts # None THEN ts[1] ELSE settings.tool_default_timeout_seconds

\* timeout = timeout_seconds or self._settings.tool_default_timeout_seconds
EffectiveTimeout(ts) ==
    IF TruthyInt(ts) THEN ts[1] ELSE settings.tool_default_timeout_seconds

\* bool(working_dir) for working_dir: str | None
TruthyPath(o) == o # None /\ (o[1].abs \/ o[1].parts # <<>>)

\* cwd = resolve_from_root(working_dir) if working_dir else project_root
WorkingDir(wd) ==
    IF TruthyPath(wd) THEN resolve_from_root(wd[1]) ELSE project_root

\* the working directory check without its is_dir half
InvalidWorkingDirMissingOnly(dir) == ~Exists(dir)

\* if not cwd.exists() or not cwd.is_dir(): raise ValueError
InvalidWorkingDir(dir) == ~Exists(dir) \/ ~IsDir(dir)

\* str(path) of an absolute path
RECURSIVE PathStr(_)
PathStr(parts) ==
    IF parts = <<>> THEN ""
    ELSE IF Len(parts) = 1 THEN "/" \o parts[1]
    ELSE PathStr(Front(parts)) \o "/" \o parts[Len(parts)]

\* the command as one shell line: the arguments joined after the program
RECURSIVE JoinWords(_)
JoinWords(words) ==
    IF words = <<>> THEN "" ELSE " " \o Head(words) \o JoinWords(Tail(words))

BuildCommandShell(tgt, arguments) == <<PathStr(tgt) \o JoinWords(arguments)>>

\* command = [str(target), *args]
BuildCommand(tgt, arguments) == <<PathStr(tgt)>> \o arguments

\* the timeout result reporting the kill signal instead of 124
TimeoutResultKilled(cmd, t, out, err, elapsed) ==
    [command |-> cmd,
     exit_code |-> -9,
     stdout |-> SanitizeOutput(ToText(out)),
     stderr |-> SanitizeOutput(ToText(err) \o TimeoutNotice(t)),
     duration_ms |-> elapsed]

\* the ProcessResult of a child that timed out
TimeoutResult(cmd, t, out, err, elapsed) ==
    [command |-> cmd,
     exit_code |-> 124,
     stdout |-> SanitizeOutput(ToText(out)),
     stderr |-> SanitizeOutput(ToText(err) \o TimeoutNotice(t)),
     duration_ms |-> elapsed]

\* the completed result with the exit status reduced to success or failure
CompletedResultFlag(cmd, returncode, out, err, elapsed) ==
    [command |-> cmd,
     exit_code |-> IF returncode = 0 THEN 0 ELSE 1,
     stdout |-> SanitizeOutput(out),
     stderr |-> SanitizeOutput(err),
     duration_ms |-> elapsed]

\* the ProcessResult of a child that exited
CompletedResult(cmd, returncode, out, err, elapsed) ==
    [command |-> cmd,
     exit_code |-> returncode,
     stdout |-> SanitizeOutput(out),
     stderr |-> SanitizeOutput(err),
     duration_ms |-> elapsed]

-----------------------------------------------------------------------------
(* The inputs of a behaviour. Scenario "paths" enumerates every executable *)
(* string of up to MaxPathLen components and keeps the other arguments at  *)
(* their defaults; scenario "calls" varies every argument over samples;    *)
(* scenario "env" varies the ProxyPolicy and keeps the arguments few.      *)

PathsUpTo(n) == UNION {[1..k -> Names] : k \in 0..n}

SampleExecutables ==
    {Rel(<<"tool">>), Rel(<<"sub", "tool">>), Rel(<<"..", "bin", "tool">>),
     Abs(<<"app", "bin", "tool">>), Rel(<<"out", "tool">>),
     Rel(<<"..", "..", "etc", "tool">>), Abs(<<"etc", "tool">>),
     Rel(<<>>), Rel(<<"sub">>), Rel(<<"nope">>)}

ExecutableInputs ==
    IF scenario = "paths"
    THEN {Rel(p) : p \in PathsUpTo(MaxPathLen)} \cup {Abs(p) : p \in PathsUpTo(MaxPathLen)}
    ELSE IF scenario = "env" THEN {Rel(<<"tool">>), Rel(<<"nope">>)}
    ELSE SampleExecutables

MinTimeoutSeconds == 1

MaxTimeoutSeconds == 3600

TimeoutInputs ==
    IF scenario \in {"paths", "env"} THEN {None}
    ELSE {None, Some(0), Some(-1), Some(MinTimeoutSeconds),
          Some(MaxTimeoutSeconds), Some(MaxTimeoutSeconds + 1)}

WorkingDirInputs ==
    IF scenario \in {"paths", "env"} THEN {None}
    ELSE {None, Some(Rel(<<>>)), Some(Rel(<<"bin">>)), Some(Rel(<<"~">>)),
          Some(Rel(<<"bin", "tool">>)), Some(Rel(<<"nodir">>))}

ArgInputs ==
    IF scenario \in {"paths", "env"} THEN {<<>>}
    ELSE {<<>>, <<"a", "b">>, <<"$(id)", "; ls">>}

\* what a child may do: its exit status (negative: killed by a signal), the
\* bytes it writes and how long it runs, in milliseconds
ExitCodes == {0, 1, 124, -9}

ChildStdouts == {<<>>, <<"0">>, <<"m">>, <<ESC, "[", "m", "0", LF>>, <<"BAD">>}

ChildStderrs == {<<>>, <<ESC, "[">>}

ChildRunMs == {0, 1500, 4000000}

\* what TimeoutExpired carries: None, or the bytes read so far
PartialOutputs == {None, Some(<<"m">>), Some(<<"BAD">>), Some(<<ESC, "[">>)}

OverheadMs == {0, 3}

-----------------------------------------------------------------------------
(* models: request validation                                              *)

\* Field(default=None, ge=1, le=3600)
TimeoutFieldValid(ts) ==
    ts = None \/ (MinTimeoutSeconds <= ts[1] /\ ts[1] <= MaxTimeoutSeconds)

\* models.HciFilterRequest
HciFilterRequestValid(payload) ==
    /\ payload.input_path # ""
    /\ TimeoutFieldValid(payload.timeout_seconds)

\* models.ToolExecutionRequest: executable, args[], timeout_seconds?
\* (bounded), working_dir?
ToolExecutionRequestValid(payload) == TimeoutFieldValid(payload.timeout_seconds)

HciPayloads ==
    {[input_path |-> i, ogf |-> g, ocf |-> None, opcode |-> o,
      eventcode |-> None, le_subevent |-> None, vendor_eventcode |-> v,
      timeout_seconds |-> t] :
        i \in {"", "in.log"}, g \in {None, Some("0x08")},
        o \in {None, Some(""), Some("0x0c03")}, v \in {None, Some("0xff")},
        t \in TimeoutInputs}

\* args.extend([flag, value]) when the value is truthy
Flag(name, value) == IF TruthyStr(value) THEN <<name, value[1]>> ELSE <<>>

\* main.hci_filter: the argument vector built from the payload
HciArgs(payload) ==
    <<"hci", "filter", "--mode", "json", "-o", "stdout">>
        \o Flag("--ogf", payload.ogf)
        \o Flag("--ocf", payload.ocf)
        \o Flag("--opcode", payload.opcode)
        \o Flag("--eventcode", payload.eventcode)
        \o Flag("--le-subevent", payload.le_subevent)
        \o Flag("--vendor-eventcode", payload.vendor_eventcode)
        \o <<payload.input_path>>

-----------------------------------------------------------------------------
(* The state machine of one request.                                       *)

NoCall ==
    /\ pc = "idle"
    /\ route = ""
    /\ executable = Rel(<<>>)
    /\ args = <<>>
    /\ timeout_seconds = None
    /\ working_dir = None
    /\ target = <<>>
    /\ timeout = 0
    /\ cwd = <<>>
    /\ command = <<>>
    /\ spawned = <<>>
    /\ captured = <<>>
    /\ timedOut = FALSE
    /\ exc = ""
    /\ result = <<>>
    /\ response = <<>>

NoStudy ==
    /\ text = <<>>
    /\ passes = <<>>
    /\ jiraSetting = ""
    /\ jiraValue = None
    /\ defaults = <<>>

\* the environment the service is started in: a PATH and no proxy
PlainEnviron == [name \in EnvNames |-> IF name = "PATH" THEN Some("/usr/bin") ELSE None]

\* the service has not started, nothing was sent to the issue tracker and
\* no concurrent request is being served
NoService ==
    /\ started = "no"
    /\ jiraPayload = <<>>
    /\ configured = <<>>
    /\ httpSent = <<>>
    /\ calls = <<>>
    /\ procs = <<>>

Init ==
    /\ scenario = "calls"
    /\ settings \in {MakeSettings("dev", strip, NoJira, NoJira, NoJira) : strip \in BOOLEAN}
    /\ NoCall
    /\ NoStudy
    /\ NoService
    /\ environ = PlainEnviron

InitPaths ==
    /\ scenario = "paths"
    /\ settings = MakeSettings("dev", TRUE, NoJira, NoJira, NoJira)
    /\ NoCall
    /\ NoStudy
    /\ NoService
    /\ environ = PlainEnviron

\* the call runner.run(executable, args, timeout_seconds, working_dir)
Enter(r, exe, arguments, ts, wd) ==
    /\ pc' = "run"
    /\ route' = r
    /\ executable' = exe
    /\ args' = arguments
    /\ timeout_seconds' = ts
    /\ working_dir' = wd
    /\ UNCHANGED <<scenario, settings, target, timeout, cwd, command, spawned, captured,
                   timedOut, exc, result, response, text, passes, jiraSetting,
                   jiraValue,
                   defaults, environ, started, httpSent, calls, procs,
                   jiraPayload, configured>>

\* the request is refused by validation: 422, no handler runs
Refuse(r) ==
    /\ pc' = "refused"
    /\ route' = r
    /\ response' = Some([status |-> 422])
    /\ UNCHANGED <<scenario, settings, executable, args, timeout_seconds,
                   working_dir, target, timeout, cwd, command, spawned, captured,
                   timedOut, exc, result, text, passes, jiraSetting, jiraValue,
                   defaults, environ, started, httpSent, calls, procs,
                   jiraPayload, configured>>

\* ProcessRunner.run called as a plain method, with any argument values
CallRun ==
    /\ pc = "idle"
    /\ \E exe \in ExecutableInputs, arguments \in ArgInputs,
          ts \in TimeoutInputs, wd \in WorkingDirInputs :
            Enter("direct", exe, arguments, ts, wd)

\* POST /tools/run up to the call of runner.run. ensure_bin_dir finds the
\* bin directory present.
PostToolsRun ==
    /\ pc = "idle"
    /\ \E exe \in ExecutableInputs, arguments \in ArgInputs,
          ts \in TimeoutInputs, wd \in WorkingDirInputs :
            LET payload == [executable |-> exe, args |-> arguments,
                            timeout_seconds |-> ts, working_dir |-> wd]
            IN  IF ToolExecutionRequestValid(payload)
                THEN Enter("run_tool", payload.executable, payload.args,
                           payload.timeout_seconds, payload.working_dir)
                ELSE Refuse("run_tool")

\* POST /tools/hci/filter up to the call of runner.run
PostHciFilter ==
    /\ pc = "idle"
    /\ \E payload \in HciPayloads :
            IF HciFilterRequestValid(payload)
            THEN Enter("hci_filter", settings.tool_hci_filter_executable,
                       HciArgs(payload), payload.timeout_seconds,
                       Some(settings.tool_hci_filter_working_dir))
            ELSE Refuse("hci_filter")

\* ProcessRunner.run from its first line to the command vector
RunResolve ==
    /\ pc = "run"
    /\ LET res == ResolveExecutable(executable)
           t == EffectiveTimeout(timeout_seconds)
           dir == WorkingDir(working_dir)
       IN  IF res.raises # ""
           THEN /\ exc' = res.raises
                /\ pc' = "raised"
                /\ UNCHANGED <<target, timeout, cwd, command,
                   defaults, environ, started, httpSent, calls, procs,
                   jiraPayload, configured>>
           ELSE IF InvalidWorkingDir(dir)
           THEN /\ exc' = "ValueError"
                /\ pc' = "raised"
                /\ target' = res.path
                /\ timeout' = t
                /\ cwd' = dir
                /\ UNCHANGED command
           ELSE /\ target' = res.path
                /\ timeout' = t
                /\ cwd' = dir
                /\ command' = BuildCommand(res.path, args)
                /\ pc' = "spawn"
                /\ UNCHANGED exc
    /\ UNCHANGED <<scenario, settings, route, executable, args, timeout_seconds,
                   working_dir, spawned, captured, timedOut, result, response, text,
                   passes, jiraSetting, jiraValue,
                   defaults, environ, started, httpSent, calls, procs,
                   jiraPayload, configured>>

\* subprocess.run starts the child: the command vector is executed as it is,
\* without a shell; a file without the execute permission makes the spawn
\* fail with PermissionError
Spawn ==
    /\ pc = "spawn"
    /\ IF target \in ExecFiles
       THEN /\ spawned' = Append(spawned, [command |-> command, cwd |-> cwd,
                                          timeout |-> timeout,
                                          env |-> BuildEnv(environ)])
            /\ pc' = "running"
            /\ UNCHANGED exc
       ELSE /\ exc' = "PermissionError"
            /\ pc' = "raised"
            /\ UNCHANGED spawned
    /\ UNCHANGED <<scenario, settings, route, executable, args, timeout_seconds,
                   working_dir, target, timeout, cwd, command, captured, timedOut,
                   result, response, text, passes, jiraSetting, jiraValue,
                   defaults, environ, started, httpSent, calls, procs,
                   jiraPayload, configured>>

\* the child exits before the timeout: subprocess.run decodes what it wrote
\* (text=True: strictly) and run builds the result
ChildExits ==
    /\ pc = "running"
    /\ \E returncode \in ExitCodes, out \in ChildStdouts, err \in ChildStderrs,
          ms \in ChildRunMs :
            /\ ms < timeout * 1000
            /\ captured' = Some([returncode |-> Some(returncode),
                                 stdout |-> Some(out), stderr |-> Some(err)])
            /\ IF DecodesStrictly(out) /\ DecodesStrictly(err)
               THEN /\ result' = Some(CompletedResult(command, returncode,
                                                      out, err, ms))
                    /\ pc' = "returned"
                    /\ UNCHANGED exc
               ELSE /\ exc' = "UnicodeDecodeError"
                    /\ pc' = "raised"
                    /\ UNCHANGED result
    /\ UNCHANGED <<scenario, settings, route, executable, args, timeout_seconds,
                   working_dir, target, timeout, cwd, command, spawned, timedOut,
                   response, text, passes, jiraSetting, jiraValue,
                   defaults, environ, started, httpSent, calls, procs,
                   jiraPayload, configured>>

\* the child is still running when the timeout elapses: subprocess.run kills
\* it and raises TimeoutExpired, which run turns into a result
ChildTimesOut ==
    /\ pc = "running"
    /\ \E out \in PartialOutputs, err \in PartialOutputs, ms \in ChildRunMs,
          over \in OverheadMs :
            /\ ms >= timeout * 1000
            /\ captured' = Some([returncode |-> None, stdout |-> out,
                                 stderr |-> err])
            /\ LET waited == IF timeout > 0 THEN timeout * 1000 ELSE 0
               IN  result' = Some(TimeoutResult(command, timeout, out, err,
                                                waited + over))
    /\ timedOut' = TRUE
    /\ pc' = "returned"
    /\ UNCHANGED <<scenario, settings, route, executable, args, timeout_seconds,
                   working_dir, target, timeout, cwd, command, spawned, exc,
                   response, text, passes, jiraSetting, jiraValue,
                   defaults, environ, started, httpSent, calls, procs,
                   jiraPayload, configured>>

\* the exception classes that are ValueError
IsValueError(e) ==
    e \in {"ValueError", "UnsafeExecutablePathError", "UnicodeDecodeError"}

\* the except clauses after runner.run, then the framework's answer to an
\* exception no clause catches
ErrorStatus(e) ==
    IF e = "ExecutableNotFoundError" THEN 404
    ELSE IF e = "UnsafeExecutablePathError" THEN 400
    ELSE IF IsValueError(e) THEN 400
    ELSE 500

\* the response built from a ProcessResult: 502 unless stdout is JSON
ResultResponse(res) ==
    IF ~TryParseJson(res.stdout)
    THEN [status |-> 502]
    ELSE [status |-> 200, command |-> res.command, exit_code |-> res.exit_code,
          output |-> Strip(res.stdout), stderr |-> res.stderr,
          duration_ms |-> res.duration_ms]

\* run_tool answering with stdout as it is, parsed or not
RunToolResponseAnyStdout ==
    IF pc = "raised" THEN [status |-> ErrorStatus(exc)]
    ELSE [status |-> 200, command |-> result[1].command,
          exit_code |-> result[1].exit_code,
          output |-> Strip(result[1].stdout), stderr |-> result[1].stderr,
          duration_ms |-> result[1].duration_ms]

\* main.run_tool after runner.run
RunToolResponse ==
    IF pc = "raised" THEN [status |-> ErrorStatus(exc)]
    ELSE ResultResponse(result[1])

\* main.hci_filter after runner.run
HciFilterResponse ==
    IF pc = "raised" THEN [status |-> ErrorStatus(exc)]
    ELSE ResultResponse(result[1])

RunToolResponds ==
    /\ pc \in {"raised", "returned"}
    /\ route = "run_tool"
    /\ response' = Some(RunToolResponse)
    /\ pc' = "responded"
    /\ UNCHANGED <<scenario, settings, route, executable, args, timeout_seconds,
                   working_dir, target, timeout, cwd, command, spawned, captured, timedOut,
                   exc, result, text, passes, jiraSetting, jiraValue,
                   defaults, environ, started, httpSent, calls, procs,
                   jiraPayload, configured>>

HciFilterResponds ==
    /\ pc \in {"raised", "returned"}
    /\ route = "hci_filter"
    /\ response' = Some(HciFilterResponse)
    /\ pc' = "responded"
    /\ UNCHANGED <<scenario, settings, route, executable, args, timeout_seconds,
                   working_dir, target, timeout, cwd, command, spawned, captured, timedOut,
                   exc, result, text, passes, jiraSetting, jiraValue,
                   defaults, environ, started, httpSent, calls, procs,
                   jiraPayload, configured>>

Next ==
    \/ CallRun
    \/ PostToolsRun
    \/ PostHciFilter
    \/ RunResolve
    \/ Spawn
    \/ ChildExits
    \/ ChildTimesOut
    \/ RunToolResponds
    \/ HciFilterResponds

Spec == Init /\ [][Next]_vars

SpecPaths == InitPaths /\ [][Next]_vars

-----------------------------------------------------------------------------
(* The sanitizer on its own: every text of up to MaxTextLen characters,    *)
(* sanitized and sanitized again.                                          *)

TextsUpTo(n) == UNION {[1..k -> Chars] : k \in 0..n}

InitSanitize ==
    /\ scenario = "sanitize"
    /\ settings \in {MakeSettings("dev", strip, NoJira, NoJira, NoJira) : strip \in BOOLEAN}
    /\ NoCall
    /\ text \in TextsUpTo(MaxTextLen)
    /\ passes = <<>>
    /\ jiraSetting = ""
    /\ jiraValue = None
    /\ defaults = <<>>
    /\ NoService
    /\ environ = PlainEnviron

\* one more call of _sanitize_output, on the output of the previous one
SanitizeAgain ==
    /\ Len(passes) < 2
    /\ passes' = Append(passes, SanitizeOutput(IF passes = <<>> THEN text
                                               ELSE passes[Len(passes)]))
    /\ UNCHANGED <<scenario, settings, pc, route, executable, args,
                   timeout_seconds, working_dir, target, timeout, cwd, command,
                   spawned, captured, timedOut, exc, result, response, text, jiraSetting,
                   jiraValue,
                   defaults, environ, started, httpSent, calls, procs,
                   jiraPayload, configured>>

NextSanitize == SanitizeAgain

SpecSanitize == InitSanitize /\ [][NextSanitize]_vars

-----------------------------------------------------------------------------
(* The settings on their own: every active environment, one Jira setting   *)
(* with every combination of absent, empty and set values, the other two   *)
(* with a few.                                                             *)

JiraSettings == {"base_url", "user_email", "api_token"}

Choices(tag) == {None, Some(""), Some(tag)}

\* every group of a base value and the three overrides of setting name
AllGroups(name) ==
    {[base |-> b, dev |-> d, staging |-> g, prod |-> p] :
        b \in Choices(name \o "-base"), d \in Choices(name \o "-dev"),
        g \in Choices(name \o "-staging"), p \in Choices(name \o "-prod")}

FewGroups(name) ==
    {NoJira,
     [NoJira EXCEPT !.base = Some(name \o "-base")],
     [NoJira EXCEPT !.staging = Some(name \o "-staging")]}

GroupsOf(name, focus) == IF name = focus THEN AllGroups(name) ELSE FewGroups(name)

InitSettings ==
    /\ scenario = "settings"
    /\ \E env \in Envs, focus \in JiraSettings :
         \E url \in GroupsOf("base_url", focus),
            email \in GroupsOf("user_email", focus),
            token \in GroupsOf("api_token", focus) :
              settings = MakeSettings(env, TRUE, url, email, token)
    /\ NoCall
    /\ NoStudy
    /\ NoService
    /\ environ = PlainEnviron

\* the property of Settings that resolves setting name
ResolvedJira(name) ==
    IF name = "base_url" THEN resolved_jira_base_url
    ELSE IF name = "user_email" THEN resolved_jira_user_email
    ELSE resolved_jira_api_token

\* a read of one of the three resolved properties
ReadJira ==
    /\ \E name \in JiraSettings :
         /\ jiraSetting' = name
         /\ jiraValue' = ResolvedJira(name)
    /\ UNCHANGED <<scenario, settings, pc, route, executable, args,
                   timeout_seconds, working_dir, target, timeout, cwd, command,
                   spawned, captured, timedOut, exc, result, response, text, passes,
                   defaults, environ, started, httpSent, calls, procs,
                   jiraPayload, configured>>

NextSettings == ReadJira

SpecSettings == InitSettings /\ [][NextSettings]_vars

-----------------------------------------------------------------------------
(* The service with its startup, over every ProxyPolicy.                   *)

\* an environment that already carries proxy and terminal variables of its
\* own, with values no setting has
InheritedEnviron ==
    [name \in EnvNames |->
        IF name = "PATH" THEN Some("/usr/bin")
        ELSE IF name \in {"HTTP_PROXY", "no_proxy"} THEN Some("inherited")
        ELSE IF name = "TERM" THEN Some("xterm")
        ELSE None]

InitEnv ==
    /\ scenario = "env"
    /\ \E http \in {None, Some(""), Some("http://proxy")},
          https \in {None, Some("https://proxy")},
          no \in {None, Some("localhost")},
          apply \in BOOLEAN, color \in BOOLEAN :
            settings = [MakeSettings("dev", TRUE, NoJira, NoJira, NoJira)
                           EXCEPT !.proxy_http = http, !.proxy_https = https,
                                  !.proxy_no_proxy = no,
                                  !.proxy_apply_to_process = apply,
                                  !.tool_force_no_color_env = color]
    /\ NoCall
    /\ NoStudy
    /\ NoService
    /\ environ \in {PlainEnviron, InheritedEnviron}

\* main.lifespan, the application startup. configure_logging hands the
\* log_level setting as it is to logging.basicConfig, which raises
\* ValueError for "AUTO" when the root logger has no handler yet and does
\* nothing when it has one: the startup then fails or goes on. Going on,
\* _apply_proxy_environment writes every item of proxy_env() into
\* os.environ; the bin directory is there already.
Lifespan ==
    /\ pc = "idle"
    /\ started = "no"
    /\ \/ /\ settings.log_level = "AUTO"
          /\ started' = "failed"
          /\ UNCHANGED environ
       \/ /\ started' = "yes"
          /\ environ' = DictUpdate(environ, proxy_env)
    /\ UNCHANGED <<scenario, settings, pc, route, executable, args,
                   timeout_seconds, working_dir, target, timeout, cwd, command,
                   spawned, captured, timedOut, exc, result, response, text, passes,
                   jiraSetting, jiraValue, defaults, httpSent, calls, procs,
                   jiraPayload, configured>>

NextService ==
    \/ Lifespan
    \/ Next

SpecEnv == InitEnv /\ [][NextService]_vars

-----------------------------------------------------------------------------
(* Concurrent requests. Each request runs ProcessRunner.run on a worker    *)
(* thread of its own (run_sync), with a ProcessRunner of its own over the  *)
(* shared settings. calls[c] holds the locals of call c; procs is the      *)
(* operating system's table of the children, a child's pid its index. A    *)
(* child writes pieces of output into its two pipes; a piece is written as *)
(* the pid of its writer.                                                  *)

Callers == 1..MaxCallers

NoChild == 0

IdleCall ==
    [pc |-> "idle", executable |-> Rel(<<>>), timeout_seconds |-> None,
     target |-> <<>>, timeout |-> 0, command |-> <<>>, child |-> NoChild,
     timedOut |-> FALSE, exc |-> "", result |-> <<>>]

InitConcurrent ==
    /\ scenario = "concurrent"
    /\ settings = MakeSettings("dev", TRUE, NoJira, NoJira, NoJira)
    /\ NoCall
    /\ NoStudy
    /\ started = "no"
    /\ httpSent = <<>>
    /\ jiraPayload = <<>>
    /\ configured = <<>>
    /\ environ = PlainEnviron
    /\ calls = [c \in Callers |-> IdleCall]
    /\ procs = <<>>

UnchangedButCalls ==
    UNCHANGED <<scenario, settings, pc, route, executable, args, timeout_seconds,
                working_dir, target, timeout, cwd, command, spawned, captured,
                timedOut, exc, result, response, text, passes, jiraSetting,
                jiraValue, defaults, environ, started, httpSent, jiraPayload,
                configured>>

\* a request reaches runner.run(executable, args, timeout_seconds, None)
CallEnters(c) ==
    /\ calls[c].pc = "idle"
    /\ \E exe \in {Rel(<<"tool">>), Rel(<<"out", "tool">>)},
          ts \in {None, Some(MinTimeoutSeconds)} :
            calls' = [calls EXCEPT ![c].pc = "run", ![c].executable = exe,
                                   ![c].timeout_seconds = ts]
    /\ UNCHANGED procs
    /\ UnchangedButCalls

\* ProcessRunner.run of call c from its first line to the command vector
CallResolves(c) ==
    /\ calls[c].pc = "run"
    /\ LET res == ResolveExecutable(calls[c].executable)
           dir == WorkingDir(None)
       IN  IF res.raises # ""
           THEN calls' = [calls EXCEPT ![c].pc = "raised", ![c].exc = res.raises]
           ELSE IF InvalidWorkingDir(dir)
           THEN calls' = [calls EXCEPT ![c].pc = "raised", ![c].exc = "ValueError"]
           ELSE calls' = [calls EXCEPT
                            ![c].pc = "spawn",
                            ![c].target = res.path,
                            ![c].timeout = EffectiveTimeout(calls[c].timeout_seconds),
                            ![c].command = BuildCommand(res.path, <<>>)]
    /\ UNCHANGED procs
    /\ UnchangedButCalls

\* subprocess.run of call c starts its child, with pipes of its own for
\* stdout and stderr, and keeps the handle
CallSpawns(c) ==
    /\ calls[c].pc = "spawn"
    /\ procs' = Append(procs, [command |-> calls[c].command,
                               env |-> BuildEnv(environ),
                               state |-> "running", returncode |-> None,
                               reaped |-> FALSE,
                               stdout |-> <<>>, stderr |-> <<>>])
    /\ calls' = [calls EXCEPT ![c].pc = "communicate",
                              ![c].child = Len(procs) + 1]
    /\ UnchangedButCalls

\* a running child writes a piece to one of its pipes, one piece to each
\* at most
ChildWrites(p) ==
    /\ p \in DOMAIN procs
    /\ procs[p].state = "running"
    /\ \/ /\ procs[p].stdout = <<>>
          /\ procs' = [procs EXCEPT ![p].stdout = <<ToString(p)>>]
       \/ /\ procs[p].stderr = <<>>
          /\ procs' = [procs EXCEPT ![p].stderr = <<ToString(p)>>]
    /\ UNCHANGED calls
    /\ UnchangedButCalls

\* a running child exits by itself
ChildEnds(p) ==
    /\ p \in DOMAIN procs
    /\ procs[p].state = "running"
    /\ \E returncode \in {0, 1} :
         procs' = [procs EXCEPT ![p].state = "exited",
                                ![p].returncode = Some(returncode)]
    /\ UNCHANGED calls
    /\ UnchangedButCalls

\* what communicate() of call c reads from the pipes of the first child
\* of the table
PipesOfFirstChild(c) ==
    [stdout |-> procs[1].stdout, stderr |-> procs[1].stderr]

\* what communicate() of call c reads: the pipes of the child it started
PipesOfChild(c) ==
    [stdout |-> procs[calls[c].child].stdout,
     stderr |-> procs[calls[c].child].stderr]

\* the child of call c has exited: subprocess.run reads its pipes to the
\* end, waits for it, and run builds the result
CallCompletes(c) ==
    /\ calls[c].pc = "communicate"
    /\ procs[calls[c].child].state = "exited"
    /\ procs' = [procs EXCEPT ![calls[c].child].reaped = TRUE]
    /\ LET read == PipesOfChild(c)
       IN  calls' = [calls EXCEPT
                       ![c].pc = "returned",
                       ![c].result =
                           Some(CompletedResult(calls[c].command,
                                                procs[calls[c].child].returncode[1],
                                                read.stdout, read.stderr, 0))]
    /\ UnchangedButCalls

\* the timeout of call c elapses before communicate() is through:
\* subprocess.run kills the child, waits for it and raises TimeoutExpired
\* with what was read, which run turns into the result 124
CallTimesOut(c) ==
    /\ calls[c].pc = "communicate"
    /\ procs' = [procs EXCEPT
                    ![calls[c].child].state =
                        IF @ = "running" THEN "killed" ELSE @,
                    ![calls[c].child].reaped = TRUE]
    /\ LET read == PipesOfChild(c)
       IN  calls' = [calls EXCEPT
                       ![c].pc = "returned",
                       ![c].timedOut = TRUE,
                       ![c].result =
                           Some(TimeoutResult(calls[c].command, calls[c].timeout,
                                              Some(read.stdout), Some(read.stderr),
                                              calls[c].timeout * 1000))]
    /\ UnchangedButCalls

NextConcurrent ==
    \/ \E c \in Callers :
          \/ CallEnters(c)
          \/ CallResolves(c)
          \/ CallSpawns(c)
          \/ CallCompletes(c)
          \/ CallTimesOut(c)
    \/ \E p \in Callers :
          \/ ChildWrites(p)
          \/ ChildEnds(p)

SpecConcurrent == InitConcurrent /\ [][NextConcurrent]_vars

-----------------------------------------------------------------------------
(* jira_client.JiraClient and the route POST /jira/issues/update, over     *)
(* the settings of the study above.                                        *)

\* the request bodies: the fields to update (their names) and the comment
JiraPayloads ==
    {[fields |-> f, comment |-> c] :
        f \in {<<>>, <<"summary">>}, c \in {None, Some(""), Some("note")}}

\* models.JiraIssueUpdateRequest.validate_payload
JiraIssueUpdateRequestValid(p) == ~(p.fields = <<>> /\ ~TruthyStr(p.comment))

\* the status codes the issue tracker answers with
TrackerStatuses == {201, 204, 400, 503}

\* the route is called: a body that fails validation is refused with 422,
\* any other reaches JiraClient.update_issue
PostJiraUpdate ==
    /\ pc = "idle"
    /\ route' = "jira"
    /\ \E p \in JiraPayloads :
         IF JiraIssueUpdateRequestValid(p)
         THEN /\ jiraPayload' = Some(p)
              /\ pc' = "update_issue"
              /\ UNCHANGED response
         ELSE /\ pc' = "refused"
              /\ response' = Some([status |-> 422])
              /\ UNCHANGED jiraPayload
    /\ UNCHANGED <<scenario, settings, executable, args, timeout_seconds,
                   working_dir, target, timeout, cwd, command, spawned, captured,
                   timedOut, exc, result, text, passes, jiraSetting, jiraValue,
                   defaults, environ, started, httpSent, calls, procs, configured>>

\* JiraClient.update_issue up to the first request: the configuration
\* checks and _build_headers
UpdateIssueChecks ==
    /\ pc = "update_issue"
    /\ configured' = Some(jira_is_configured)
    /\ LET base_url == resolved_jira_base_url
       IN  IF ~jira_is_configured
           THEN exc' = "JiraConfigError" /\ pc' = "jira_raised"
           ELSE IF ~TruthyStr(base_url)
           THEN exc' = "JiraConfigError" /\ pc' = "jira_raised"
           ELSE IF ~TruthyStr(resolved_jira_user_email)
                   \/ ~TruthyStr(resolved_jira_api_token)
           THEN exc' = "JiraConfigError" /\ pc' = "jira_raised"
           ELSE pc' = "put_fields" /\ UNCHANGED exc
    /\ UNCHANGED <<scenario, settings, route, executable, args, timeout_seconds,
                   working_dir, target, timeout, cwd, command, spawned, captured,
                   timedOut, result, response, text, passes, jiraSetting, jiraValue,
                   defaults, environ, started, httpSent, calls, procs, jiraPayload>>

\* one request to the tracker and _raise_for_status on its answer; a
\* request that gets no answer raises httpx's own error
SendToTracker(method, path, nextPc) ==
    /\ httpSent' = Append(httpSent, [method |-> method, path |-> path,
                                      base_url |-> resolved_jira_base_url])
    /\ \/ \E status \in TrackerStatuses :
            IF status >= 400
            THEN exc' = "JiraApiError" /\ pc' = "jira_raised"
            ELSE pc' = nextPc /\ UNCHANGED exc
       \/ exc' = "httpx.TransportError" /\ pc' = "jira_raised"

\* update_issue: the PUT of the fields, when there are any
PutFields ==
    /\ pc = "put_fields"
    /\ IF jiraPayload[1].fields # <<>>
       THEN SendToTracker("PUT", "/rest/api/2/issue/KEY-1", "post_comment")
       ELSE pc' = "post_comment" /\ UNCHANGED <<httpSent, exc>>
    /\ UNCHANGED <<scenario, settings, route, executable, args, timeout_seconds,
                   working_dir, target, timeout, cwd, command, spawned, captured,
                   timedOut, result, response, text, passes, jiraSetting, jiraValue,
                   defaults, environ, started, calls, procs, jiraPayload, configured>>

\* update_issue: the POST of the comment, when there is one
PostComment ==
    /\ pc = "post_comment"
    /\ IF TruthyStr(jiraPayload[1].comment)
       THEN SendToTracker("POST", "/rest/api/2/issue/KEY-1/comment", "jira_returned")
       ELSE pc' = "jira_returned" /\ UNCHANGED <<httpSent, exc>>
    /\ UNCHANGED <<scenario, settings, route, executable, args, timeout_seconds,
                   working_dir, target, timeout, cwd, command, spawned, captured,
                   timedOut, result, response, text, passes, jiraSetting, jiraValue,
                   defaults, environ, started, calls, procs, jiraPayload, configured>>

\* the route's answer: 500 for JiraConfigError, 502 for JiraApiError, 500
\* for an exception it does not catch, and the update's outcome otherwise
JiraResponds ==
    /\ pc \in {"jira_raised", "jira_returned"}
    /\ pc' = "jira_responded"
    /\ response' =
          IF pc = "jira_returned"
          THEN Some([status |-> 200,
                     fields_updated |-> jiraPayload[1].fields # <<>>,
                     comment_added |-> TruthyStr(jiraPayload[1].comment)])
          ELSE IF exc = "JiraConfigError" THEN Some([status |-> 500])
          ELSE IF exc = "JiraApiError" THEN Some([status |-> 502])
          ELSE Some([status |-> 500])
    /\ UNCHANGED <<scenario, settings, route, executable, args, timeout_seconds,
                   working_dir, target, timeout, cwd, command, spawned, captured,
                   timedOut, exc, result, text, passes, jiraSetting, jiraValue,
                   defaults, environ, started, httpSent, calls, procs, jiraPayload,
                   configured>>

NextJira ==
    \/ PostJiraUpdate
    \/ UpdateIssueChecks
    \/ PutFields
    \/ PostComment
    \/ JiraResponds

SpecJira == InitSettings /\ [][NextJira]_vars

-----------------------------------------------------------------------------
(* The operational defaults of Settings: every environment with every      *)
(* log level, JSON flag and reload flag.                                    *)

InitDefaults ==
    /\ scenario = "defaults"
    /\ \E env \in Envs, level \in LogLevels, json \in {None, Some(TRUE), Some(FALSE)},
          reload \in BOOLEAN :
            settings = [MakeSettings(env, TRUE, NoJira, NoJira, NoJira)
                           EXCEPT !.log_level = level, !.log_json = json,
                                  !.api_reload = reload]
    /\ NoCall
    /\ NoStudy
    /\ NoService
    /\ environ = PlainEnviron

\* a read of the three resolved properties
ReadDefaults ==
    /\ defaults = <<>>
    /\ defaults' = Some([log_level |-> resolved_log_level,
                         log_json |-> resolved_log_json,
                         api_reload |-> resolved_api_reload])
    /\ UNCHANGED <<scenario, settings, pc, route, executable, args,
                   timeout_seconds, working_dir, target, timeout, cwd, command,
                   spawned, captured, timedOut, exc, result, response, text, passes,
                   jiraSetting, jiraValue, environ, started, httpSent, calls, procs,
                   jiraPayload, configured>>

NextDefaults == ReadDefaults

SpecDefaults == InitDefaults /\ [][NextDefaults]_vars

-----------------------------------------------------------------------------
(* The claims. What they need is stated on its own terms: the bin          *)
(* directory is /app/bin, the project root /app, and a path is canonical   *)
(* once realpath has been applied to it.                                   *)

\* the canonical path an executable string denotes
Canonical(exe) ==
    Resolve(IF exe.abs THEN exe ELSE Abs(<<"app", "bin">> \o exe.parts))

\* canonical path c is the bin directory or below it
InsideBin(c) == Len(c) >= 2 /\ c[1] = "app" /\ c[2] = "bin"

\* the executable string names a regular file inside the bin directory
ExecutableResolves(exe) ==
    InsideBin(Canonical(exe)) /\ Canonical(exe) \in ExecFiles \cup PlainFiles

\* the working directory the override asks for, canonical
RequestedDir(wd) ==
    IF wd = None \/ wd = Some(Rel(<<>>)) THEN <<"app">>
    ELSE IF wd[1].abs THEN Resolve(wd[1])
    ELSE IF Head(wd[1].parts) = "~" THEN Resolve(Abs(HomeDir \o Tail(wd[1].parts)))
    ELSE Resolve(Abs(<<"app">> \o wd[1].parts))

\* run has been entered and has got past its resolution steps
PastResolution == pc \in {"raised", "spawn", "running", "returned", "responded"}

EndsWith(s, suffix) ==
    Len(s) >= Len(suffix) /\ SubSeq(s, Len(s) - Len(suffix) + 1, Len(s)) = suffix

\* C1: an executable string whose canonical path is neither the bin
\* directory nor below it (relative or absolute, through ".." or through a
\* symbolic link) makes resolve_executable raise UnsafeExecutablePathError,
\* and run called with it never spawns a child.
C1_EscapeIsRefused ==
    (pc # "idle" /\ ~InsideBin(Canonical(executable))) =>
        /\ spawned = <<>>
        /\ result = <<>>
        /\ pc \in {"run", "raised", "responded"}
        /\ pc # "run" => exc = "UnsafeExecutablePathError"

\* C1 witness: the symbolic link out/tool, which leads to /etc/tool, an
\* existing executable file, has been refused
C1_Witness ==
    /\ pc = "raised"
    /\ executable = Rel(<<"out", "tool">>)
    /\ exc = "UnsafeExecutablePathError"
    /\ spawned = <<>>

\* C2: a child is spawned only after the executable and the working
\* directory have both resolved; when either fails run raises and has
\* spawned nothing; without an override the working directory is the
\* project root.
C2_SpawnOnlyAfterResolution ==
    /\ spawned # <<>> =>
          /\ ExecutableResolves(executable)
          /\ RequestedDir(working_dir) \in Dirs
          /\ \A i \in 1..Len(spawned) : spawned[i].cwd = RequestedDir(working_dir)
    /\ (PastResolution /\ ~ExecutableResolves(executable)) =>
          /\ pc \in {"raised", "responded"}
          /\ exc \in {"UnsafeExecutablePathError", "ExecutableNotFoundError"}
          /\ spawned = <<>>
    /\ (PastResolution /\ ExecutableResolves(executable)
            /\ RequestedDir(working_dir) \notin Dirs) =>
          /\ pc \in {"raised", "responded"}
          /\ exc = "ValueError"
          /\ spawned = <<>>
    /\ (pc \in {"spawn", "running", "returned"} /\ working_dir = None) =>
          cwd = <<"app">>

\* C2 witness: the executable resolved, the working directory override
\* names a regular file, and run has raised ValueError
C2_Witness ==
    /\ pc = "raised"
    /\ executable = Rel(<<"tool">>)
    /\ working_dir = Some(Rel(<<"bin", "tool">>))
    /\ exc = "ValueError"
    /\ spawned = <<>>

\* C3: when the child has not exited by the effective timeout run does not
\* raise: it returns a result with exit code 124, the partial output that
\* was captured, the timeout notice at the end of stderr, and a duration of
\* at least the timeout.
C3_TimeoutIsAResult ==
    timedOut =>
        /\ exc = ""
        /\ pc \in {"returned", "responded"}
        /\ result # <<>>
        /\ result[1].exit_code = 124
        /\ result[1].duration_ms >= timeout * 1000
        /\ EndsWith(result[1].stderr, TimeoutNotice(timeout))
        /\ LET out == IF captured[1].stdout = None THEN <<>>
                      ELSE DecodeReplace(captured[1].stdout[1])
               err == IF captured[1].stderr = None THEN <<>>
                      ELSE DecodeReplace(captured[1].stderr[1])
           IN  IF settings.tool_strip_ansi_output
               THEN /\ result[1].stdout = AnsiSub(out, 1)
                    /\ result[1].stderr = AnsiSub(err, 1) \o TimeoutNotice(timeout)
               ELSE /\ result[1].stdout = out
                    /\ result[1].stderr = err \o TimeoutNotice(timeout)

\* C3 witness: a timeout whose partial stderr ends in an unfinished escape
\* sequence, with stripping enabled
C3_Witness ==
    /\ timedOut
    /\ pc = "returned"
    /\ settings.tool_strip_ansi_output
    /\ captured[1].stderr = Some(<<ESC, "[">>)
    /\ captured[1].stdout = Some(<<"m">>)
    /\ result[1].exit_code = 124

\* C4: once the child is spawned, however it ends run returns a result
\* carrying its exit code (124 on timeout); run raises only for a
\* resolution failure before the spawn or a failure of the spawn itself.
C4_AlwaysAResultAfterSpawn ==
    /\ exc # "" => spawned = <<>>
    /\ (spawned # <<>> /\ pc # "running") =>
          /\ result # <<>>
          /\ result[1].exit_code =
                IF timedOut THEN 124 ELSE captured[1].returncode[1]

\* C5 as stated: the exit code is 124 if and only if the child was
\* terminated because the timeout elapsed.
C5_Only124OnTimeout ==
    result # <<>> => (result[1].exit_code = 124 <=> timedOut)

\* C5 amended: a timeout always gives 124, and a child that exited gives
\* its own exit status, whatever it is; so an exit code other than 124
\* means the child was not timed out.
C5_TimeoutGives124 ==
    result # <<>> =>
        /\ timedOut => result[1].exit_code = 124
        /\ ~timedOut => result[1].exit_code = captured[1].returncode[1]
        /\ result[1].exit_code # 124 => ~timedOut

\* C5 witness: a child that exited by itself with status 124
C5_Witness ==
    /\ result # <<>>
    /\ ~timedOut
    /\ captured[1].returncode = Some(124)
    /\ result[1].exit_code = 124

\* C6 as stated: every POST /tools/run in which run returned a result, with
\* any exit code and any stdout, is answered with a success response
\* carrying the command, exit code, output, stderr and duration.
C6_RunToolAlwaysSucceeds ==
    (route = "run_tool" /\ pc = "responded" /\ result # <<>>) =>
        /\ response[1].status = 200
        /\ response[1].command = result[1].command
        /\ response[1].exit_code = result[1].exit_code

\* C6 amended: each request has one outcome, and it is the same for
\* POST /tools/run and POST /tools/hci/filter: ExecutableNotFoundError
\* gives 404; a ValueError out of run (the sandbox violation, the invalid
\* working directory, the output that does not decode) gives 400; any other
\* exception gives 500; a returned result gives 502 when its stdout is
\* empty or not JSON, and otherwise 200 with the command, the exit code
\* (124 included), the parsed output, stderr and the duration.
C6_OneOutcomePerRequest ==
    pc = "responded" =>
        /\ route \in {"run_tool", "hci_filter"}
        /\ response # <<>>
        /\ (exc # "") # (result # <<>>)
        /\ exc = "ExecutableNotFoundError" => response[1] = [status |-> 404]
        /\ exc \in {"UnsafeExecutablePathError", "ValueError", "UnicodeDecodeError"}
              => response[1] = [status |-> 400]
        /\ exc = "PermissionError" => response[1] = [status |-> 500]
        /\ result # <<>> =>
              LET body == Strip(result[1].stdout)
              IN  IF body = <<"0">>
                  THEN response[1] =
                         [status |-> 200, command |-> result[1].command,
                          exit_code |-> result[1].exit_code, output |-> body,
                          stderr |-> result[1].stderr,
                          duration_ms |-> result[1].duration_ms]
                  ELSE response[1] = [status |-> 502]

\* C6 witness: POST /tools/run, the tool exited with status 0 and wrote
\* text that is not JSON, and the answer is 502
C6_Witness ==
    /\ route = "run_tool"
    /\ pc = "responded"
    /\ result # <<>>
    /\ result[1].exit_code = 0
    /\ result[1].stdout = <<"m">>
    /\ response[1].status = 502

\* C7: with stripping enabled the sanitizer is idempotent and leaves a text
\* without escape sequence unchanged; with stripping disabled it is the
\* identity.
C7_SanitizeIdempotent ==
    /\ Len(passes) = 2 => passes[2] = passes[1]
    /\ (Len(passes) >= 1 /\ ~HasCsi(text)) => passes[1] = text
    /\ (Len(passes) >= 1 /\ ~settings.tool_strip_ansi_output) => passes[1] = text

\* the override of the active environment in a group of values, None for
\* the environment that has none
ActiveOverride(group) ==
    IF settings.app_env = "test" THEN None
    ELSE [dev |-> group.dev, staging |-> group.staging,
          prod |-> group.prod][settings.app_env]

\* the values Settings holds for setting name
GroupIn(name) ==
    IF name = "base_url"
    THEN [base |-> settings.jira_base_url, dev |-> settings.jira_base_url_dev,
          staging |-> settings.jira_base_url_staging,
          prod |-> settings.jira_base_url_prod]
    ELSE IF name = "user_email"
    THEN [base |-> settings.jira_user_email, dev |-> settings.jira_user_email_dev,
          staging |-> settings.jira_user_email_staging,
          prod |-> settings.jira_user_email_prod]
    ELSE [base |-> settings.jira_api_token, dev |-> settings.jira_api_token_dev,
          staging |-> settings.jira_api_token_staging,
          prod |-> settings.jira_api_token_prod]

\* C8: each resolved Jira setting is the override of the active environment
\* when that is present and not empty, otherwise the base value, which may
\* be absent; "test" has no override and gets the base value; the overrides
\* of the other environments play no part.
C8_OverrideThenBase ==
    jiraSetting # "" =>
        LET group == GroupIn(jiraSetting)
            over == ActiveOverride(group)
        IN  /\ (over # None /\ over # Some("")) => jiraValue = over
            /\ (over = None \/ over = Some("")) => jiraValue = group.base
            /\ settings.app_env = "test" => jiraValue = group.base

\* C8 witness: staging is active, the API token has a base value, a staging
\* override and a prod override, and the staging override was returned
C8_Witness ==
    /\ jiraSetting = "api_token"
    /\ settings.app_env = "staging"
    /\ settings.jira_api_token = Some("api_token-base")
    /\ settings.jira_api_token_prod = Some("api_token-prod")
    /\ jiraValue = Some("api_token-staging")

InBound(n) == MinTimeoutSeconds <= n /\ n <= MaxTimeoutSeconds

\* C9 as stated: the timeout handed to the child is timeout_seconds when it
\* is present and within 1..3600 and the configured default otherwise; no
\* value outside the bound is ever the effective timeout.
C9_TimeoutWithinBound ==
    \A i \in 1..Len(spawned) :
        /\ spawned[i].timeout =
              IF timeout_seconds # None /\ InBound(timeout_seconds[1])
              THEN timeout_seconds[1] ELSE DefaultTimeoutSeconds
        /\ InBound(spawned[i].timeout)

\* C9 amended: the timeout handed to the child is timeout_seconds when it
\* is present and not zero, and the configured default when it is absent or
\* zero. run applies no bound: a negative or too large value is handed on
\* as it is. The bound is that of the request model, so a child started
\* for POST /tools/hci/filter always has a timeout within 1..3600.
C9_TimeoutOrDefault ==
    \A i \in 1..Len(spawned) :
        /\ spawned[i].timeout =
              IF timeout_seconds = None \/ timeout_seconds = Some(0)
              THEN DefaultTimeoutSeconds ELSE timeout_seconds[1]
        /\ route = "hci_filter" => InBound(spawned[i].timeout)

\* C9 witness: run was called with 3601 seconds and the child was started
\* with that timeout
C9_Witness ==
    /\ spawned # <<>>
    /\ timeout_seconds = Some(MaxTimeoutSeconds + 1)
    /\ spawned[1].timeout = MaxTimeoutSeconds + 1

\* the program a resolving executable string stands for, as text
ProgramText(exe) ==
    IF Canonical(exe) = <<"app", "bin", "tool">> THEN "/app/bin/tool"
    ELSE "/app/bin/sub/tool"

\* C10: the vector that is executed is the canonical executable path
\* followed by the arguments, unchanged, in order and one element each;
\* the result reports the vector that was spawned, after an exit and after
\* a timeout alike.
C10_CommandVector ==
    /\ Len(spawned) <= 1
    /\ \A i \in 1..Len(spawned) :
          /\ Len(spawned[i].command) = 1 + Len(args)
          /\ spawned[i].command[1] = ProgramText(executable)
          /\ \A k \in 1..Len(args) : spawned[i].command[k + 1] = args[k]
    /\ result # <<>> =>
          /\ Len(spawned) = 1
          /\ result[1].command = spawned[1].command

\* C10 witness: echo-like scenario, tool with arguments a and b exited with
\* status 0 and the result reports the three-element vector
C10_Witness ==
    /\ result # <<>>
    /\ ~timedOut
    /\ result[1].exit_code = 0
    /\ executable = Rel(<<"tool">>)
    /\ result[1].command = <<"/app/bin/tool", "a", "b">>

\* C14: resolve_executable checks containment before existence, and every
\* executable string gets exactly one of three outcomes. A canonical path
\* outside the bin directory gives UnsafeExecutablePathError, whether or not
\* a file is there. A canonical path that is the bin directory or below it
\* and is not an existing regular file gives ExecutableNotFoundError. Every
\* other string is resolved to its canonical path, which lies below the bin
\* directory.
C14_ContainmentBeforeExistence ==
    PastResolution =>
        LET c == Canonical(executable)
        IN  IF ~InsideBin(c)
            THEN exc = "UnsafeExecutablePathError" /\ pc \in {"raised", "responded"}
            ELSE IF c \notin ExecFiles \cup PlainFiles
            THEN exc = "ExecutableNotFoundError" /\ pc \in {"raised", "responded"}
            ELSE /\ exc \notin {"UnsafeExecutablePathError", "ExecutableNotFoundError"}
                 /\ target = c
                 /\ InsideBin(target)
                 /\ Len(target) > 2

\* C14 witness: a string whose canonical path is outside the bin directory
\* and names nothing that exists has been refused as a sandbox violation
C14_Witness ==
    /\ pc = "raised"
    /\ ~InsideBin(Canonical(executable))
    /\ Canonical(executable) \notin Dirs \cup ExecFiles \cup PlainFiles
    /\ exc = "UnsafeExecutablePathError"

\* C13: the resolved log level is the explicit level unless that is AUTO,
\* and then DEBUG for dev, INFO for test and for staging, WARNING for prod;
\* the resolved JSON flag is the explicit flag when one is set, and
\* otherwise true for staging and prod only; the resolved reload flag is
\* false for prod and the api_reload setting everywhere else.
C13_OperationalDefaults ==
    defaults # <<>> =>
        LET env == settings.app_env
            read == defaults[1]
        IN  /\ settings.log_level # "AUTO" => read.log_level = settings.log_level
            /\ settings.log_level = "AUTO" =>
                  /\ env = "dev" => read.log_level = "DEBUG"
                  /\ env \in {"test", "staging"} => read.log_level = "INFO"
                  /\ env = "prod" => read.log_level = "WARNING"
            /\ settings.log_json = Some(TRUE) => read.log_json
            /\ settings.log_json = Some(FALSE) => ~read.log_json
            /\ settings.log_json = None => (read.log_json <=> env \in {"staging", "prod"})
            /\ env = "prod" => ~read.api_reload
            /\ env # "prod" => (read.api_reload <=> settings.api_reload)

\* C13 witness: in prod, with the level on AUTO, no JSON flag and reloading
\* switched on, the three properties have been read
C13_Witness ==
    /\ settings.app_env = "prod"
    /\ settings.log_level = "AUTO"
    /\ settings.log_json = None
    /\ settings.api_reload
    /\ defaults = Some([log_level |-> "WARNING", log_json |-> TRUE, api_reload |-> FALSE])

\* the three resolved Jira values of the active environment are all set
\* and not empty
AllThreeResolved ==
    /\ resolved_jira_base_url \notin {None, Some("")}
    /\ resolved_jira_user_email \notin {None, Some("")}
    /\ resolved_jira_api_token \notin {None, Some("")}

\* C15: jira_is_configured is true exactly when the resolved base URL, user
\* email and API token of the active environment are all non-empty; when
\* it is false, update_issue raises JiraConfigError with no HTTP request
\* sent to the tracker, and the route answers 500.
C15_NotConfiguredIsRefused ==
    /\ configured # <<>> => (configured[1] <=> AllThreeResolved)
    /\ (pc \in {"jira_raised", "put_fields", "post_comment", "jira_returned",
                 "jira_responded"} /\ ~AllThreeResolved) =>
          /\ exc = "JiraConfigError"
          /\ httpSent = <<>>
          /\ pc \in {"jira_raised", "jira_responded"}
          /\ pc = "jira_responded" => response = Some([status |-> 500])

\* C15 witness: with a base URL and a user email but an empty API token, a
\* valid update has been answered 500 and nothing was sent
C15_Witness ==
    /\ pc = "jira_responded"
    /\ resolved_jira_base_url = Some("base_url-base")
    /\ resolved_jira_user_email = Some("user_email-base")
    /\ resolved_jira_api_token = Some("")
    /\ configured = Some(FALSE)
    /\ response = Some([status |-> 500])
    /\ httpSent = <<>>

\* C12: the environment of every child is the process environment with
\* the proxy variables of the ProxyPolicy added exactly when
\* proxy_apply_to_process is on: with it on, each pair of names whose
\* setting is not empty carries that setting; with it off, no proxy
\* variable of the child carries a value of the ProxyPolicy, before the
\* application startup and after it. The variables that are neither proxy
\* nor colour variables are those of the process environment.
C12_ProxyOnlyWhenEnabled ==
    \A i \in 1..Len(spawned) :
        LET env == spawned[i].env
        IN  /\ env["PATH"] = environ["PATH"]
            /\ \A name \in ProxyNames :
                  IF TruthyStr(ProxySetting(name))
                  THEN IF settings.proxy_apply_to_process
                       THEN env[name] = ProxySetting(name)
                       ELSE env[name] # ProxySetting(name)
                  ELSE env[name] = environ[name]

\* the pieces of output in text s
Pieces(s) == {s[i] : i \in 1..Len(s)} \ {LF}

\* the pieces a result may hold when its child is pid: those pid wrote, and
\* the words of the timeout notice
OwnPieces(pid) ==
    {ToString(pid)} \cup {"Process timed out after " \o ToString(t) \o " seconds." :
                              t \in {MinTimeoutSeconds, DefaultTimeoutSeconds}}

\* C11: under every interleaving of concurrent calls of run, each call
\* that gets as far as spawning starts one child, which is the child of no
\* other call, and a call that raised before that starts none; the stdout
\* and stderr of a result hold only what the call's own child wrote; no
\* call changes the settings or the process environment; and when a call
\* has returned, with or without a timeout, its child has ended and has
\* been waited for.
C11_CallsAreIsolated ==
    /\ settings = MakeSettings("dev", TRUE, NoJira, NoJira, NoJira)
    /\ environ = PlainEnviron
    /\ Len(procs) = Cardinality({c \in DOMAIN calls : calls[c].child # NoChild})
    /\ \A c \in DOMAIN calls :
          LET call == calls[c]
          IN  /\ call.child # NoChild <=> call.pc \in {"communicate", "returned"}
              /\ call.child # NoChild => call.child \in DOMAIN procs
              /\ \A d \in DOMAIN calls :
                    (d # c /\ call.child # NoChild) => calls[d].child # call.child
              /\ call.pc = "returned" =>
                    /\ call.result # <<>>
                    /\ Pieces(call.result[1].stdout) \subseteq OwnPieces(call.child)
                    /\ Pieces(call.result[1].stderr) \subseteq OwnPieces(call.child)
                    /\ ~call.timedOut =>
                          /\ call.result[1].stdout = procs[call.child].stdout
                          /\ call.result[1].stderr = procs[call.child].stderr
                    /\ procs[call.child].state \in {"exited", "killed"}
                    /\ procs[call.child].reaped

\* C11 witness: two calls ran at the same time, the one that entered
\* second spawned first; both children wrote output; one call returned
\* after its child exited and the other on its timeout, which killed the
\* child
C11_Witness ==
    /\ calls[1].pc = "returned"
    /\ calls[2].pc = "returned"
    /\ calls[1].child = 2
    /\ calls[2].child = 1
    /\ calls[1].timedOut
    /\ ~calls[2].timedOut
    /\ procs[2].state = "killed"
    /\ procs[1].stdout # <<>>
    /\ procs[2].stderr # <<>>

====
